---- MODULE Spec2Model ----
(***************************************************************************)
(* Buffered tree (src/buffered_tree.c): a pointer-level model.             *)
(*                                                                         *)
(* The heap is three tables of cells (payloads, containers, nodes); a      *)
(* pointer is the index of a cell and NULL is 0.  The tree handle and the  *)
(* heap travel together in one record, written t below, that every         *)
(* operator takes and returns the way the C functions take struct bftree*. *)
(* C indexes containers from 0; so do the operators, and containers[i] of  *)
(* the code is t.node[n].containers[i+1] here.                             *)
(***************************************************************************)
EXTENDS Integers, Sequences, FiniteSets, TLC

\* ----------------------------------------------------------------------
\* Bounds of the model
\* ----------------------------------------------------------------------
MaxKey == 3      \* keys are the strings "1" .. "MaxKey", ordered as numbers
MaxVal == 2      \* values are 1 .. MaxVal
MaxOps == 5      \* put/del calls per run

Keys == 1..MaxKey
Vals == 1..MaxVal

\* ----------------------------------------------------------------------
\* Program constants
\* ----------------------------------------------------------------------
NULL == 0
Put == 0
Del == 1
BF_OK == 0
BFTREE_DEFAULT_CONTAINER == 2
BFTREE_CONTAINER_THRESHOLD == 2
BFTREE_PAYLOAD_THRESHOLD == 2

\* uint32_t.  A value is held as its 32-bit pattern read in two's complement,
\* so that 0 - 1 is -1, the pattern of 4294967295: addition and subtraction
\* are the integer ones, order and division are the unsigned ones below.
u32_lt(a, b) == IF (a < 0) = (b < 0) THEN a < b ELSE b < 0
u32_gt(a, b) == u32_lt(b, a)
u32_half(a) == IF a >= 0 THEN a \div 2 ELSE (2147483647 + (a \div 2)) + 1

\* A void* handed in by the caller: the object it points to and the string
\* stored there.  The null pointer points to object 0.
NullPtr == [obj |-> 0, str |-> 0]
Ptr(o, s) == [obj |-> o, str |-> s]

\* compare() of main: strcmp on the two keys.
compare(key1, key2) ==
    IF key1.str < key2.str THEN -1 ELSE IF key1.str = key2.str THEN 0 ELSE 1

\* ----------------------------------------------------------------------
\* malloc / free
\* ----------------------------------------------------------------------
\* A cell that is not allocated.
FreePayload == [key |-> NullPtr, val |-> NullPtr, type |-> Put, next |-> NULL,
                live |-> FALSE]

\* What an uninitialised int on the stack may hold when it is tested.
Garbage == {0, 1}

\* What a freed payload cell is to a stale pointer, until the public call
\* returns.  "overwritten": free() has written the allocator's two link
\* words over key and val (Wild: no string is mapped there) and left type
\* and next as they were.  "poisoned": the cell is unmapped or guarded, and
\* any read of it ends the process.  In both, strcmp on the key of a freed
\* cell faults and free() of a freed cell aborts.
FreedCells == {"overwritten", "poisoned"}

Wild == [obj |-> 0, str |-> -1]

\* p points to a freed cell.
stale(t, p) == p # NULL /\ ~t.pay[p].live

\* A dereference of NULL, strcmp on a wild pointer or an abort in free()
\* ends the process.
segfault(t) == [t EXCEPT !.crashed = TRUE]

\* The heap after a read of type or next through a pointer to a freed cell.
read_freed(t) ==
    IF t.freed = "poisoned"
    THEN [t EXCEPT !.use_after_free = TRUE, !.crashed = TRUE]
    ELSE [t EXCEPT !.use_after_free = TRUE]

\* The heap after strcmp on the key of a freed cell, or free() of one.
fault_freed(t) == [t EXCEPT !.use_after_free = TRUE, !.crashed = TRUE]

\* malloc(sizeof(struct payload)): the first cell that is not live.
RECURSIVE FirstFree(_, _)
FirstFree(cells, i) ==
    IF i > Len(cells) THEN i
    ELSE IF ~cells[i].live THEN i
    ELSE FirstFree(cells, i + 1)

\* The least object number the caller has not in use.
RECURSIVE FreshObj(_, _)
FreshObj(used, i) == IF i \in used THEN FreshObj(used, i + 1) ELSE i

\* The caller-supplied destructors, as the tree invokes them: the call is
\* counted, the object leaves the set of live objects, and a call
\* on an object already destructed is recorded.
key_destructor(t, key) ==
    [t EXCEPT !.key_dtor_calls = @ + 1,
              !.double_free = @ \/ (key.obj \notin t.live_keys),
              !.live_keys = @ \ {key.obj}]

val_destructor(t, val) ==
    [t EXCEPT !.val_dtor_calls = @ + 1,
              !.double_free = @ \/ (val.obj \notin t.live_vals),
              !.live_vals = @ \ {val.obj}]

\* ----------------------------------------------------------------------
\* Payloads
\* ----------------------------------------------------------------------
\* payload_create: returns the heap with the new cell and the pointer to it.
payload_create(t, key, val, type) ==
    LET p == FirstFree(t.pay, 1)
        cell == [key |-> key, val |-> val, type |-> type, next |-> NULL,
                 live |-> TRUE]
    IN [t |-> [t EXCEPT !.pay = IF p > Len(t.pay) THEN Append(t.pay, cell)
                                 ELSE [t.pay EXCEPT ![p] = cell]],
        payload |-> p]

payload_free(t, payload) ==
    IF stale(t, payload) THEN fault_freed(t) ELSE
    LET c == t.pay[payload]
        t1 == IF c.key # NullPtr /\ t.opts.key_destructor
              THEN key_destructor(t, c.key) ELSE t
        t2 == IF c.val # NullPtr /\ t.opts.val_destructor
              THEN val_destructor(t1, c.val) ELSE t1
        t3 == IF c.type = Put
              THEN [t2 EXCEPT !.put_payload_count = @ - 1]
              ELSE [t2 EXCEPT !.del_payload_count = @ - 1]
    IN [t3 EXCEPT !.pay[payload] = [@ EXCEPT !.key = Wild, !.val = Wild,
                                             !.live = FALSE]]

\* payload_replace without "older->val = newer->val".
payload_replace_no_val(t, older, newer) ==
    payload_free([t EXCEPT !.pay[older].type = t.pay[newer].type], newer)

\* payload_replace that only releases the new payload.
payload_replace_keeps_old(t, older, newer) == payload_free(t, newer)

\* payload_replace without "newer->val = temp".
payload_replace_no_swap_back(t, older, newer) ==
    LET t1 == [t EXCEPT !.pay[older].val = t.pay[newer].val]
        t3 == [t1 EXCEPT !.pay[older].type = t1.pay[newer].type]
    IN payload_free(t3, newer)

payload_replace(t, older, newer) ==
    LET temp == t.pay[older].val
        t1 == [t EXCEPT !.pay[older].val = t.pay[newer].val]
        t2 == [t1 EXCEPT !.pay[newer].val = temp]
        t3 == [t2 EXCEPT !.pay[older].type = t2.pay[newer].type]
    IN payload_free(t3, newer)

\* ----------------------------------------------------------------------
\* Containers and nodes
\* ----------------------------------------------------------------------
container_create(t) ==
    [t |-> [t EXCEPT !.cont = Append(@, [payload_first |-> NULL,
                                         payload_size |-> 0,
                                         child |-> NULL])],
     container |-> Len(t.cont) + 1]

node_create(t, parent_node) ==
    [t |-> [t EXCEPT !.node = Append(@, [parent |-> parent_node,
                                         containers |-> << >>,
                                         container_count |-> BFTREE_DEFAULT_CONTAINER])],
     node |-> Len(t.node) + 1]

container_size(t, node) == Len(t.node[node].containers)

\* insert_after_container: grow the array when full, then put the container
\* at index container_idx+1 (at index 0 of an empty node).
insert_after_container(t, node, container, container_idx) ==
    LET n == t.node[node]
        size == Len(n.containers)
        count == IF size = n.container_count THEN n.container_count * 2
                 ELSE n.container_count
        at == container_idx + 1
        arr == IF size = 0 THEN << container >>
               ELSE SubSeq(n.containers, 1, at) \o << container >>
                    \o SubSeq(n.containers, at + 1, size)
    IN [t EXCEPT !.node[node].containers = arr,
                 !.node[node].container_count = count]

\* remove_container that returns the container and leaves it in the array.
remove_container_keep(t, node, idx) ==
    [t |-> t, removed |-> t.node[node].containers[idx + 1]]

\* remove_container: returns the heap and the removed container.
remove_container(t, node, idx) ==
    LET cs == t.node[node].containers
    IN [t |-> [t EXCEPT !.node[node].containers =
                   SubSeq(cs, 1, idx) \o SubSeq(cs, idx + 2, Len(cs))],
        removed |-> cs[idx + 1]]

\* The separator key of a container: container->payload_first->key.
sep(t, container) == t.pay[t.cont[container].payload_first].key

\* find_container: scan from start_container to the first container whose
\* separator is greater than key; return the index before it.
RECURSIVE find_container_loop(_, _, _, _)
find_container_loop(t, node, key, i) ==
    IF i < container_size(t, node)
    THEN IF compare(key, sep(t, t.node[node].containers[i + 1])) < 0
         THEN i
         ELSE find_container_loop(t, node, key, i + 1)
    ELSE i

find_container(t, node, key, start_container) ==
    LET i == find_container_loop(t, node, key, start_container)
    IN IF i = 0 THEN 0 ELSE i - 1

\* The scan of find_container hands strcmp the key of a freed cell.
RECURSIVE find_container_faults(_, _, _, _)
find_container_faults(t, node, key, i) ==
    /\ i < container_size(t, node)
    /\ LET separator == sep(t, t.node[node].containers[i + 1])
       IN \/ key = Wild
          \/ separator = Wild
          \/ /\ compare(key, separator) >= 0
             /\ find_container_faults(t, node, key, i + 1)

\* get_payload: the payload with this key (is_equal = 1), else the last
\* payload with a smaller key, else NULL.
RECURSIVE get_payload_loop(_, _, _, _)
get_payload_loop(t, prev_payload, curr_payload, key) ==
    IF curr_payload = NULL
    THEN [payload |-> prev_payload, is_equal |-> 0, fault |-> FALSE]
    ELSE IF key = Wild \/ stale(t, curr_payload)
    THEN \* strcmp on the key of a freed cell
         [payload |-> prev_payload, is_equal |-> 0, fault |-> TRUE]
    ELSE LET compared == compare(key, t.pay[curr_payload].key)
         IN IF compared <= 0
            THEN IF compared = 0
                 THEN [payload |-> curr_payload, is_equal |-> 1, fault |-> FALSE]
                 ELSE [payload |-> prev_payload, is_equal |-> 0, fault |-> FALSE]
            ELSE get_payload_loop(t, curr_payload, t.pay[curr_payload].next, key)

get_payload(t, payload_start, key) ==
    get_payload_loop(t, NULL, payload_start, key)

\* ----------------------------------------------------------------------
\* Insertion, downward push, reflow and the two splits
\* ----------------------------------------------------------------------
\* The functions entered during the current public call.
enter(t, fn) == [t EXCEPT !.calls = @ \cup {fn}]

RECURSIVE container_insert(_, _, _, _)
RECURSIVE push_to_child(_, _, _)
RECURSIVE push_to_child_loop(_, _, _, _, _, _)
RECURSIVE order_container_payload(_, _, _, _)
RECURSIVE order_container_payload_loop(_, _, _, _, _)
RECURSIVE try_split_node(_, _)
RECURSIVE split_container(_, _, _)

\* The overflow test at the end of container_insert.
overflow_ungated(t, target) ==
    u32_gt(t.cont[target].payload_size, BFTREE_PAYLOAD_THRESHOLD)

overflow(t, target) ==
    u32_gt(t.cont[target].payload_size, BFTREE_PAYLOAD_THRESHOLD)
    /\ t.is_migrated # 0

\* The middle of container_insert: replace the payload with the same key,
\* or link the new payload after its predecessor (at the head if none).
chain_insert_no_equal(t, target, new_payload) ==
    LET found == get_payload(t, t.cont[target].payload_first,
                             t.pay[new_payload].key)
        curr_payload == IF found.is_equal # 0
                        THEN NULL ELSE found.payload
    IN IF curr_payload # NULL
       THEN [t EXCEPT !.pay[new_payload].next = t.pay[curr_payload].next,
                      !.pay[curr_payload].next = new_payload,
                      !.cont[target].payload_size = @ + 1]
       ELSE [t EXCEPT !.pay[new_payload].next = t.cont[target].payload_first,
                      !.cont[target].payload_first = new_payload,
                      !.cont[target].payload_size = @ + 1]

chain_insert(t0, target, new_payload) ==
    \* new_payload->key is read through the pointer handed in
    LET t == IF stale(t0, new_payload) THEN read_freed(t0) ELSE t0
        found == get_payload(t, t.cont[target].payload_first,
                             t.pay[new_payload].key)
        curr_payload == found.payload
    IN IF t.crashed THEN t
       ELSE IF found.fault THEN fault_freed(t)
       ELSE IF found.is_equal # 0
       THEN \* exist same key, swap value of payload
            payload_replace(t, curr_payload, new_payload)
       ELSE IF curr_payload # NULL
       THEN \* not at the header of payload list
            [t EXCEPT !.pay[new_payload].next = t.pay[curr_payload].next,
                      !.pay[curr_payload].next = new_payload,
                      !.cont[target].payload_size = @ + 1]
       ELSE \* at the header of payload list
            [t EXCEPT !.pay[new_payload].next = t.cont[target].payload_first,
                      !.cont[target].payload_first = new_payload,
                      !.cont[target].payload_size = @ + 1]

\* The functions below return the set of heaps the call may end in: each
\* frame of push_to_child reads an uninitialised word of its own.
container_insert(t, node, container_idx, new_payload) ==
    IF t.crashed THEN { t } ELSE
    LET fresh == ~u32_lt(container_idx, container_size(t, node))
        made == container_create(t)
        target == IF fresh THEN made.container
                  ELSE t.node[node].containers[container_idx + 1]
        t1 == IF fresh THEN insert_after_container(made.t, node, target, 0) ELSE t
        inserted(t2) ==
            IF t2.crashed THEN { t2 }
            ELSE IF overflow(t2, target)
            THEN IF t2.cont[target].child # NULL
                 THEN push_to_child(t2, node, target)
                 ELSE split_container(t2, node, container_idx)
            ELSE { t2 }
    IN inserted(chain_insert(t1, target, new_payload))

\* The while (push_count--) loop of push_to_child.
push_to_child_loop(t, container, curr_payload, child_container, push_count, skip_delete) ==
    IF push_count = 0 \/ t.crashed THEN { t }
    ELSE IF curr_payload = NULL THEN { segfault(t) }
    ELSE
    LET \* curr_payload is not advanced past a payload it has freed
        t0 == IF stale(t, curr_payload) THEN read_freed(t) ELSE t
        next_payload == t.pay[curr_payload].next
        first == t.cont[container].payload_first
        t1 == [t0 EXCEPT !.pay[first].next = next_payload]
    IN IF t1.crashed THEN { t1 }
       ELSE IF t1.pay[curr_payload].type = Del /\ skip_delete # 0
       THEN push_to_child_loop(payload_free(t1, curr_payload), container,
                               curr_payload, child_container, push_count - 1,
                               skip_delete)
       ELSE LET child == t1.cont[container].child
                key == t1.pay[curr_payload].key
                idx == find_container(t1, child, key, child_container)
            IN IF find_container_faults(t1, child, key, child_container)
               THEN { fault_freed(t1) }
               ELSE UNION { push_to_child_loop(t2, container, next_payload, idx,
                                               push_count - 1, skip_delete) :
                            t2 \in container_insert(t1, child, idx, curr_payload) }

push_to_child(t0, node, container) ==
    LET t == enter(t0, "push_to_child")
        first == t.cont[container].payload_first
        curr_payload == t.pay[first].next
        push_count == u32_half(t.cont[container].payload_size)
        t1 == [t EXCEPT !.cont[container].payload_size = @ - push_count]
        \* skip_delete is assigned only when deletes outnumber puts;
        \* otherwise it holds whatever the stack of this frame held.
        assigned == u32_gt(t.del_payload_count, t.put_payload_count)
        words == IF assigned THEN { 1 } ELSE Garbage
        frame(skip_delete) ==
            [t1 EXCEPT !.skip_garbage = @ \/ (~assigned /\ skip_delete # 0)]
    IN UNION { push_to_child_loop(frame(skip_delete), container, curr_payload, 0,
                                  push_count, skip_delete) :
               skip_delete \in words }

\* The while (curr) loop of order_container_payload.
order_container_payload_loop(t, node, left, import_idx, curr) ==
    IF curr = NULL \/ t.crashed THEN { t }
    ELSE LET t1 == [t EXCEPT !.cont[left].payload_size = @ - 1,
                             !.insert_unflagged = @ \/ (t.is_migrated = 0)]
             \* curr = curr->next, after the insertion may have freed curr
             advance(t2) ==
                 order_container_payload_loop(
                     IF ~t2.crashed /\ stale(t2, curr) THEN read_freed(t2) ELSE t2,
                     node, left, import_idx, t2.pay[curr].next)
         IN UNION { advance(t2) : t2 \in container_insert(t1, node, import_idx, curr) }

\* while (prev->next != separator) prev = prev->next;
RECURSIVE payload_before(_, _, _)
payload_before(t, prev, separator) ==
    IF prev = NULL THEN NULL
    ELSE IF t.pay[prev].next # separator
    THEN payload_before(t, t.pay[prev].next, separator)
    ELSE prev

order_container_payload(t0, node, migrated_idx, import_idx) ==
    LET t == enter(t0, "order_container_payload")
        left == t.node[node].containers[migrated_idx + 1]
        right == t.node[node].containers[import_idx + 1]
        found == get_payload(t, t.cont[left].payload_first, sep(t, right))
        prev == payload_before(t, t.cont[left].payload_first, found.payload)
        t1 == IF found.fault THEN fault_freed(t)
              ELSE IF found.is_equal # 0
              THEN IF prev = NULL THEN segfault(t)
                   ELSE [payload_replace(t, t.cont[right].payload_first,
                                         found.payload)
                            EXCEPT !.cont[left].payload_size = @ - 1]
              ELSE t
        separator == IF found.is_equal # 0 THEN prev ELSE found.payload
    IN IF t1.crashed \/ separator = NULL THEN { t1 }
       ELSE LET curr == t1.pay[separator].next
                t2 == [t1 EXCEPT !.pay[separator].next = NULL,
                                 !.is_migrated = 1]
                leave(t3) == IF t3.crashed THEN t3 ELSE [t3 EXCEPT !.is_migrated = 0]
            IN { leave(t3) : t3 \in order_container_payload_loop(t2, node, left,
                                                                   import_idx, curr) }

\* for (i = middle+1; i < container_size; ++i) insert_after_container(new_node, ...)
RECURSIVE move_containers(_, _, _, _, _)
move_containers(t, node, new_node, middle_container_idx, i) ==
    IF i < container_size(t, node)
    THEN move_containers(
             insert_after_container(t, new_node, t.node[node].containers[i + 1],
                                    i - middle_container_idx - 2),
             node, new_node, middle_container_idx, i + 1)
    ELSE t

try_split_node(t0, node) ==
    IF t0.crashed THEN { t0 } ELSE
    LET t == enter(t0, "try_split_node") IN
    IF container_size(t, node) < BFTREE_CONTAINER_THRESHOLD THEN { t }
    ELSE
    LET size == container_size(t, node)
        middle_container_idx == size \div 2
        made == node_create(t, t.node[node].parent)
        new_node == made.node
        new_node_first_container == t.node[node].containers[middle_container_idx + 1]
        t1 == [made.t EXCEPT !.cont[new_node_first_container].child = new_node]
        t2 == move_containers(t1, node, new_node, middle_container_idx,
                              middle_container_idx + 1)
        \* node->container_size -= (i - middle_container_idx), i = container_size
        t3 == [t2 EXCEPT !.node[node].containers =
                             SubSeq(@, 1, middle_container_idx)]
    IN IF node = t3.root
       THEN \* produce new root
            LET root_made == node_create(t3, NULL)
                new_root == root_made.node
                t4 == [root_made.t EXCEPT !.root = new_root,
                                          !.height = @ + 1,
                                          !.node[node].parent = new_root,
                                          !.node[new_node].parent = new_root]
                rem == remove_container(t4, node, 0)
                container == rem.removed
                t5 == [rem.t EXCEPT !.cont[container].child = node]
                t6 == insert_after_container(t5, new_root, container, 0)
            IN { insert_after_container(t6, new_root, new_node_first_container, 0) }
       ELSE LET parent == t3.node[node].parent
                key == sep(t3, new_node_first_container)
                parent_container_idx == find_container(t3, parent, key, 0)
                t4 == insert_after_container(t3, parent, new_node_first_container,
                                             parent_container_idx)
            IN IF find_container_faults(t3, parent, key, 0) THEN { fault_freed(t3) }
               ELSE UNION { try_split_node(t5, parent) :
                            t5 \in order_container_payload(t4, parent,
                                                           parent_container_idx,
                                                           parent_container_idx + 1) }

\* The walk to the split point taken one payload too far.
RECURSIVE nth_payload_past(_, _, _)
nth_payload_past(t, payload, steps) ==
    IF steps = -1 \/ payload = NULL THEN payload
    ELSE nth_payload_past(t, t.pay[payload].next, steps - 1)

\* for (i = 0; i < half_count - 1; ++i) payload = payload->next;
RECURSIVE nth_payload(_, _, _)
nth_payload(t, payload, steps) ==
    IF steps = 0 \/ payload = NULL THEN payload
    ELSE nth_payload(t, t.pay[payload].next, steps - 1)

\* split_container up to the call of try_split_node.
split_chain(t0, node, container_idx) ==
    LET t == enter(t0, "split_container")
        made == container_create(t)
        new_container == made.container
        t1 == insert_after_container(made.t, node, new_container, container_idx)
        target == t1.node[node].containers[container_idx + 1]
        half_count == u32_half(t1.cont[target].payload_size)
        payload == nth_payload(t1, t1.cont[target].payload_first,
                               half_count - 1)
    IN IF payload = NULL THEN segfault(t1)
       ELSE [t1 EXCEPT !.cont[new_container].payload_first = t1.pay[payload].next,
                       !.pay[payload].next = NULL,
                       !.cont[new_container].payload_size =
                           t1.cont[target].payload_size - half_count,
                       !.cont[target].payload_size = half_count]

split_container(t0, node, container_idx) ==
    try_split_node(split_chain(t0, node, container_idx), node)

\* ----------------------------------------------------------------------
\* Lookup
\* ----------------------------------------------------------------------
RECURSIVE container_get(_, _, _, _)
container_get(t, node, container_idx, key) ==
    IF container_idx >= container_size(t, node) THEN NULL
    ELSE LET container == t.node[node].containers[container_idx + 1]
             found == get_payload(t, t.cont[container].payload_first, key)
             curr_payload == found.payload
         IN IF found.is_equal # 0
            THEN IF t.pay[curr_payload].type = Put THEN curr_payload ELSE NULL
            ELSE IF t.cont[container].child # NULL
            THEN LET child == t.cont[container].child
                 IN container_get(t, child, find_container(t, child, key, 0), key)
            ELSE NULL

\* ----------------------------------------------------------------------
\* Public operations
\* ----------------------------------------------------------------------
\* bftree_create: the handle, with the root node as the only heap cell.  The
\* last eleven fields are not fields of struct bftree: they are what freed
\* cells are, and the record of what the process did (a frame of
\* push_to_child that found its unassigned skip_delete nonzero, functions
\* entered, destructor calls, objects not yet destructed, memory errors, a
\* reflow insertion made with is_migrated = 0).
\* bftree_create with the height counted from 0.
bftree_create_height0(opts) ==
    [root |-> 1,
     height |-> 0,
     opts |-> opts,
     is_migrated |-> 0,
     del_payload_count |-> 0,
     put_payload_count |-> 0,
     node |-> << [parent |-> NULL, containers |-> << >>,
                  container_count |-> BFTREE_DEFAULT_CONTAINER] >>,
     cont |-> << >>,
     pay |-> << >>,
     freed |-> "overwritten",
     skip_garbage |-> FALSE,
     calls |-> {},
     key_dtor_calls |-> 0,
     val_dtor_calls |-> 0,
     live_keys |-> {},
     live_vals |-> {},
     double_free |-> FALSE,
     use_after_free |-> FALSE,
     insert_unflagged |-> FALSE,
     crashed |-> FALSE]

bftree_create(opts) ==
    [root |-> 1,
     height |-> 1,
     opts |-> opts,
     is_migrated |-> 0,
     del_payload_count |-> 0,
     put_payload_count |-> 0,
     node |-> << [parent |-> NULL, containers |-> << >>,
                  container_count |-> BFTREE_DEFAULT_CONTAINER] >>,
     cont |-> << >>,
     pay |-> << >>,
     freed |-> "overwritten",
     skip_garbage |-> FALSE,
     calls |-> {},
     key_dtor_calls |-> 0,
     val_dtor_calls |-> 0,
     live_keys |-> {},
     live_vals |-> {},
     double_free |-> FALSE,
     use_after_free |-> FALSE,
     insert_unflagged |-> FALSE,
     crashed |-> FALSE]

bftree_put(t, key, val) ==
    LET made == payload_create(t, key, val, Put)
        new_payload == made.payload
        idx == find_container(made.t, made.t.root, made.t.pay[new_payload].key, 0)
    IN container_insert(made.t, made.t.root, idx, new_payload)

bftree_del(t, key) ==
    LET made == payload_create(t, key, NullPtr, Del)
        new_payload == made.payload
        idx == find_container(made.t, made.t.root, made.t.pay[new_payload].key, 0)
    IN container_insert(made.t, made.t.root, idx, new_payload)

\* bftree_get: r->val, or the null pointer.
bftree_get(t, key) ==
    LET idx == find_container(t, t.root, key, 0)
        r == container_get(t, t.root, idx, key)
    IN IF r # NULL THEN t.pay[r].val ELSE NullPtr

\* container_free: payload_free down the chain, next read before the free.
RECURSIVE container_free_loop(_, _)
container_free_loop(t, curr) ==
    IF curr = NULL THEN t
    ELSE LET next == t.pay[curr].next
         IN container_free_loop(payload_free(t, curr), next)

container_free(t, container) ==
    container_free_loop(t, t.cont[container].payload_first)

\* node_free: container_free for containers[0 .. container_size-1].
RECURSIVE node_free_loop(_, _, _)
node_free_loop(t, node, i) ==
    IF i < container_size(t, node)
    THEN node_free_loop(container_free(t, t.node[node].containers[i + 1]),
                        node, i + 1)
    ELSE t

node_free(t, node) == node_free_loop(t, node, 0)

\* bftree_free_node: the children first, then the node itself.
RECURSIVE bftree_free_node(_, _)
RECURSIVE bftree_free_children(_, _, _)
bftree_free_children(t, node, i) ==
    IF i < container_size(t, node)
    THEN LET child == t.cont[t.node[node].containers[i + 1]].child
         IN bftree_free_children(
                IF child # NULL THEN bftree_free_node(t, child) ELSE t,
                node, i + 1)
    ELSE t

bftree_free_node(t, node) == node_free(bftree_free_children(t, node, 0), node)

\* bftree_free: after it the handle and every cell reached from the root
\* are gone.
bftree_free(t) ==
    [bftree_free_node(t, t.root) EXCEPT !.root = NULL, !.node = << >>,
                                        !.cont = << >>]

\* ----------------------------------------------------------------------
\* The heap between two public calls
\* ----------------------------------------------------------------------
\* Freed cells hold no program state: they are blanked, and the free cells
\* at the end of the table are dropped.
RECURSIVE TrimFree(_)
TrimFree(cells) ==
    IF cells # << >> /\ ~cells[Len(cells)].live
    THEN TrimFree(SubSeq(cells, 1, Len(cells) - 1))
    ELSE cells

Blanked(t) ==
    [t EXCEPT !.pay = TrimFree([i \in 1..Len(t.pay) |->
                                   IF t.pay[i].live THEN t.pay[i] ELSE FreePayload]),
              !.freed = "overwritten",
              !.skip_garbage = FALSE]

\* The payloads of a chain, in chain order (at most fuel of them).
RECURSIVE Chain(_, _, _)
Chain(t, p, fuel) ==
    IF p = NULL \/ fuel = 0 THEN << >>
    ELSE << p >> \o Chain(t, t.pay[p].next, fuel - 1)

ChainOf(t, container) == Chain(t, t.cont[container].payload_first, Len(t.pay))

Range(f) == { f[i] : i \in DOMAIN f }

\* The payloads under a node in the order a walk from the node meets them:
\* container by container, the chain and then the child.
RECURSIVE WalkNode(_, _, _)
RECURSIVE WalkContainers(_, _, _, _)
WalkContainers(t, node, i, fuel) ==
    IF i > Len(t.node[node].containers) THEN << >>
    ELSE LET c == t.node[node].containers[i]
         IN ChainOf(t, c)
            \o (IF t.cont[c].child # NULL /\ fuel > 0
                THEN WalkNode(t, t.cont[c].child, fuel - 1) ELSE << >>)
            \o WalkContainers(t, node, i + 1, fuel)

WalkNode(t, node, fuel) == WalkContainers(t, node, 1, fuel)

Walk(t) == IF t.root = NULL THEN << >> ELSE WalkNode(t, t.root, Len(t.node))

\* The elements of a set of numbers in increasing order.
RECURSIVE Ascending(_)
Ascending(S) ==
    IF S = {} THEN << >>
    ELSE LET m == CHOOSE x \in S : \A y \in S : x <= y
         IN << m >> \o Ascending(S \ {m})

IndexIn(seq, x) == CHOOSE i \in DOMAIN seq : seq[i] = x

\* Addresses are names.  When every live payload is linked into the tree
\* exactly once and no two payloads share an object, the payloads are
\* renamed to the order of the walk and the objects to the order of the
\* payloads holding them (objects held by no payload follow, in their old
\* order).  A heap that is not of this shape is left as it is.
Tidy(t) ==
    LET w == Walk(t)
        livePays == { p \in DOMAIN t.pay : t.pay[p].live }
        vals == SelectSeq([i \in DOMAIN w |-> t.pay[w[i]].val.obj], LAMBDA o : o # 0)
    IN /\ Range(w) = livePays
       /\ Len(w) = Cardinality(livePays)
       /\ Cardinality({ t.pay[p].key.obj : p \in livePays }) = Len(w)
       /\ Cardinality(Range(vals)) = Len(vals)
       /\ \A p \in livePays : t.pay[p].key.obj \in t.live_keys
       /\ Range(vals) \subseteq t.live_vals

Renamed(t) ==
    LET w == Walk(t)
        keyOrder == [i \in DOMAIN w |-> t.pay[w[i]].key.obj]
        valOrder == SelectSeq([i \in DOMAIN w |-> t.pay[w[i]].val.obj],
                              LAMBDA o : o # 0)
        keyObjs == keyOrder \o Ascending(t.live_keys \ Range(keyOrder))
        valObjs == valOrder \o Ascending(t.live_vals \ Range(valOrder))
        newPay(p) == IF p = NULL THEN NULL ELSE IndexIn(w, p)
        newKey(k) == Ptr(IndexIn(keyObjs, k.obj), k.str)
        newVal(v) == IF v = NullPtr THEN v ELSE Ptr(IndexIn(valObjs, v.obj), v.str)
    IN [t EXCEPT
          !.pay = [i \in DOMAIN w |->
                      [t.pay[w[i]] EXCEPT !.key = newKey(@), !.val = newVal(@),
                                          !.next = newPay(@)]],
          !.cont = [c \in DOMAIN t.cont |->
                      [t.cont[c] EXCEPT !.payload_first = newPay(@)]],
          !.live_keys = 1..Len(keyObjs),
          !.live_vals = 1..Len(valObjs)]

Settle(t) == LET b == Blanked(t) IN IF Tidy(b) THEN Renamed(b) ELSE b

\* ----------------------------------------------------------------------
\* The state machine: a caller that creates a tree, calls put, del and get
\* in any order, and destroys the tree.
\* ----------------------------------------------------------------------
VARIABLES
    tree,      \* struct bftree and the heap behind it
    alive,     \* FALSE once bftree_free has run
    ret,       \* the last public call and what it returned
    last,      \* per key, the most recent write: 0 none, -1 del, v > 0 put v
    everPut,   \* the keys passed to put so far
    nput,      \* number of put calls
    ndel,      \* number of del calls
    input      \* the heap an internal function was called on (NoInput: none)

vars == << tree, alive, ret, last, everPut, nput, ndel, input >>

NoInput == [root |-> NULL]

\* One key more than a node can hold in containers filled to the payload
\* threshold: the keys of the caller that only inserts.
GrowthKeys == 1..(BFTREE_PAYLOAD_THRESHOLD * BFTREE_CONTAINER_THRESHOLD + 1)

\* The options the caller may pass: with both destructors, or with none as
\* main does.
OptsSet == { [key_destructor |-> d, val_destructor |-> d] : d \in BOOLEAN }

Init ==
    /\ \E opts \in OptsSet : tree = bftree_create(opts)
    /\ alive = TRUE
    /\ ret = [op |-> "create", key |-> 0, val |-> 0]
    /\ last = [k \in Keys \cup GrowthKeys |-> 0]
    /\ everPut = {}
    /\ nput = 0
    /\ ndel = 0
    /\ input = NoInput

CanCall == alive /\ ~tree.crashed

\* The heaps a call may end in, over what freed cells are.  A call that
\* touched no freed cell ends in the same heaps whatever they are.
Consulted(heaps) == \E t \in heaps : t.use_after_free

Outcomes(plain, all) == IF Consulted(plain) THEN all ELSE plain

\* key = malloc(..); val = malloc(..); bftree_put(tree, key, val)
PutOp(k, v) ==
    /\ CanCall
    /\ nput + ndel < MaxOps
    /\ LET ko == FreshObj(tree.live_keys, 1)
           vo == FreshObj(tree.live_vals, 1)
           t0(f) == [tree EXCEPT !.calls = {}, !.freed = f,
                                 !.live_keys = @ \cup {ko},
                                 !.live_vals = @ \cup {vo}]
           put(f) == bftree_put(t0(f), Ptr(ko, k), Ptr(vo, v))
       IN tree' \in { Settle(t) : t \in Outcomes(put("overwritten"),
                                                 UNION { put(f) : f \in FreedCells }) }
    /\ ret' = [op |-> "put", key |-> k, val |-> BF_OK]
    /\ last' = [last EXCEPT ![k] = v]
    /\ everPut' = everPut \cup {k}
    /\ nput' = nput + 1
    /\ UNCHANGED << alive, ndel, input >>

\* key = malloc(..); bftree_del(tree, key)
DelOp(k) ==
    /\ CanCall
    /\ nput + ndel < MaxOps
    /\ LET ko == FreshObj(tree.live_keys, 1)
           t0(f) == [tree EXCEPT !.calls = {}, !.freed = f,
                                 !.live_keys = @ \cup {ko}]
           del(f) == bftree_del(t0(f), Ptr(ko, k))
       IN tree' \in { Settle(t) : t \in Outcomes(del("overwritten"),
                                                 UNION { del(f) : f \in FreedCells }) }
    /\ ret' = [op |-> "del", key |-> k, val |-> BF_OK]
    /\ last' = [last EXCEPT ![k] = -1]
    /\ ndel' = ndel + 1
    /\ UNCHANGED << alive, everPut, nput, input >>

\* bftree_get(tree, key); the key is the caller's and is not handed over.
GetOp(k) ==
    /\ CanCall
    /\ ret' = [op |-> "get", key |-> k, val |-> bftree_get(tree, Ptr(0, k)).str]
    /\ tree' = [tree EXCEPT !.calls = {}]
    /\ UNCHANGED << alive, last, everPut, nput, ndel, input >>

\* bftree_free(tree)
DestroyOp ==
    /\ CanCall
    /\ tree' = Settle(bftree_free([tree EXCEPT !.calls = {}]))
    /\ alive' = FALSE
    /\ ret' = [op |-> "free", key |-> 0, val |-> 0]
    /\ UNCHANGED << last, everPut, nput, ndel, input >>

DoPut == \E k \in Keys, v \in Vals : PutOp(k, v)
DoDel == \E k \in Keys : DelOp(k)
DoGet == \E k \in Keys : GetOp(k)

Next == DoPut \/ DoDel \/ DoGet \/ DestroyOp

Spec == Init /\ [][Next]_vars

\* The caller of main's first loop: put a key, read it back, over enough
\* distinct keys to fill more than one node.
GrowPut == \E k \in GrowthKeys, v \in Vals : PutOp(k, v)
GrowGet == \E k \in GrowthKeys : ret.op = "put" /\ ret.key = k /\ GetOp(k)

NextGrowth == GrowPut \/ GrowGet

SpecGrowth == Init /\ [][NextGrowth]_vars

\* ----------------------------------------------------------------------
\* Reading the tree
\* ----------------------------------------------------------------------
\* The nodes under a node, each with its depth (the root is at depth 1).
RECURSIVE Subtree(_, _, _)
Subtree(t, node, depth) ==
    { << node, depth >> } \cup
    UNION { IF t.cont[c].child # NULL /\ depth <= Len(t.node)
            THEN Subtree(t, t.cont[c].child, depth + 1) ELSE {}
            : c \in Range(t.node[node].containers) }

TreeNodes(t) == IF t.root = NULL THEN {} ELSE Subtree(t, t.root, 1)

\* The containers and the payloads linked into the tree.
TreeContainers(t) == UNION { Range(t.node[nd[1]].containers) : nd \in TreeNodes(t) }
TreePayloads(t) == UNION { Range(ChainOf(t, c)) : c \in TreeContainers(t) }

\* The keys stored in the subtree of a node.
SubtreeKeys(t, node) ==
    { t.pay[p].key.str :
        p \in UNION { Range(ChainOf(t, c)) :
                 c \in UNION { Range(t.node[nd[1]].containers) :
                               nd \in Subtree(t, node, 1) } } }

IsLeaf(t, node) == \A c \in Range(t.node[node].containers) : t.cont[c].child = NULL

\* ----------------------------------------------------------------------
\* Properties
\* ----------------------------------------------------------------------
Usable == alive /\ ~tree.crashed

RootContainers == IF tree.root = NULL THEN << >> ELSE tree.node[tree.root].containers

\* Some container of the root holds more payloads than the payload threshold.
RootOverfull ==
    \E c \in Range(RootContainers) :
        u32_gt(tree.cont[c].payload_size, BFTREE_PAYLOAD_THRESHOLD)

\* C1 -- Read-your-writes, last-writer-wins: for every key whose most recent
\* put/del is put(k, v), get(k) returns v.
ReadYourWrites ==
    Usable => \A k \in DOMAIN last :
                  last[k] > 0 => bftree_get(tree, Ptr(0, k)).str = last[k]

\* A get returned the value of a put that overwrote an earlier write of the
\* same key, with writes to other keys in the run.
ReadYourWritesWitness ==
    /\ ret.op = "get" /\ ret.val > 0 /\ ret.val = last[ret.key]
    /\ Cardinality(everPut) >= 2
    /\ nput > Cardinality(everPut)
    /\ ndel >= 1

\* C2 -- Delete masking: get(k) is null for every key whose most recent
\* put/del is del(k) and for every key never written; del returns OK and the
\* process survives it, also on a key that is absent.
DeleteMasking ==
    /\ Usable => \A k \in DOMAIN last :
                     last[k] <= 0 => bftree_get(tree, Ptr(0, k)) = NullPtr
    /\ ret.op = "del" => ret.val = BF_OK /\ ~tree.crashed

\* A get returned null for a key that was put and then deleted, in a tree
\* that has also seen a del of a key never put.
DeleteMaskingWitness ==
    /\ ret.op = "get" /\ ret.val = NULL
    /\ last[ret.key] = -1 /\ ret.key \in everPut
    /\ \E k \in Keys : last[k] = -1 /\ k \notin everPut

\* C3 -- Growth beyond one node: once more distinct keys have been put than
\* container_payload_threshold x node_container_threshold, the root has been
\* split and the height is at least 2.
GrowthBeyondOneNode ==
    Cardinality(everPut) > BFTREE_PAYLOAD_THRESHOLD * BFTREE_CONTAINER_THRESHOLD
        => tree.height >= 2

\* C4 -- Invariant T2: put_payload_count and del_payload_count equal the
\* numbers of Put and Del payloads linked into the tree (so neither is ever
\* the pattern of a wrapped-around subtraction).
LiveOfType(type) == Cardinality({ p \in TreePayloads(tree) : tree.pay[p].type = type })

CountersMatchPayloads ==
    Usable => /\ tree.put_payload_count = LiveOfType(Put)
              /\ tree.del_payload_count = LiveOfType(Del)

\* C5 -- Ordering: in every node the separators of the containers increase
\* strictly (N1), in every container the keys of the chain increase strictly
\* (P1), and every container has at least one payload (P2).
StrictlyIncreasing(ks) == \A i \in 1..(Len(ks) - 1) : ks[i] < ks[i + 1]

ChainKeys(t, c) == [i \in DOMAIN ChainOf(t, c) |-> t.pay[ChainOf(t, c)[i]].key.str]

N1(t, node) ==
    StrictlyIncreasing([i \in DOMAIN t.node[node].containers |->
                           sep(t, t.node[node].containers[i]).str])
P1(t, c) == StrictlyIncreasing(ChainKeys(t, c))
P2(t, c) == t.cont[c].payload_first # NULL

OrderingInvariants ==
    Usable => /\ \A c \in TreeContainers(tree) : P2(tree, c) /\ P1(tree, c)
              /\ \A nd \in TreeNodes(tree) : N1(tree, nd[1])

\* A chain of three payloads that took an overwrite of a key in it and a
\* put of a key below its head.
OrderingWitness ==
    /\ Usable
    /\ \E c \in TreeContainers(tree) : Len(ChainOf(tree, c)) >= 3
    /\ nput + ndel > Cardinality(everPut) + 1
    /\ ret.op = "put"
    /\ \E c \in TreeContainers(tree) : sep(tree, c).str = ret.key

\* C7 -- Invariant T1: every leaf node (no container of it has a child) is
\* at depth tree.height, and no node above that depth mixes containers with
\* a child and containers without one.
HasChild(t, c) == t.cont[c].child # NULL

BalanceT1 ==
    Usable =>
        \A nd \in TreeNodes(tree) :
            /\ IsLeaf(tree, nd[1]) => nd[2] = tree.height
            /\ nd[2] < tree.height =>
                   ~(/\ \E c \in Range(tree.node[nd[1]].containers) : HasChild(tree, c)
                     /\ \E c \in Range(tree.node[nd[1]].containers) : ~HasChild(tree, c))

\* The root is a leaf holding more payloads than the payload threshold,
\* after puts and a del.
BalanceWitness ==
    /\ Usable /\ RootOverfull
    /\ IsLeaf(tree, tree.root)
    /\ ndel >= 1
    /\ tree.height = 1

\* C8 -- Destructor discipline, with both destructors configured: no object
\* is destructed twice, no object stored in a payload of the tree has been
\* destructed, every object no longer stored has been, and after destroy
\* the key destructor has run once per put and del call and the value
\* destructor once per put call.
BothDestructors == tree.opts.key_destructor /\ tree.opts.val_destructor

StoredKeys == { tree.pay[p].key.obj : p \in TreePayloads(tree) }
StoredVals == { tree.pay[p].val.obj : p \in TreePayloads(tree) } \ {0}

DestructorDiscipline ==
    BothDestructors =>
        /\ ~tree.double_free
        /\ Usable => /\ StoredKeys = tree.live_keys
                     /\ StoredVals = tree.live_vals
                     /\ tree.key_dtor_calls = nput + ndel - Cardinality(StoredKeys)
                     /\ tree.val_dtor_calls = nput - Cardinality(StoredVals)
        /\ ~alive => /\ tree.key_dtor_calls = nput + ndel
                     /\ tree.val_dtor_calls = nput
                     /\ tree.live_keys = {} /\ tree.live_vals = {}

\* A tree destroyed after puts that overwrote one another and a del of a
\* key that held a value.
DestructorWitness ==
    /\ BothDestructors /\ ~alive
    /\ nput >= 3 /\ ndel >= 1
    /\ nput > Cardinality(everPut)
    /\ \E k \in everPut : last[k] = -1
    /\ tree.key_dtor_calls = nput + ndel

\* C9 -- Height monotonicity: the height is 1 after create, no step lowers
\* it, and a step that changes it adds exactly 1 and installs a new root.
HeightMonotonic ==
    /\ tree.height = 1
    /\ [][/\ tree'.height >= tree.height
          /\ tree'.height # tree.height =>
                 tree'.height = tree.height + 1 /\ tree'.root # tree.root]_vars

\* A tree of height 1 after a del that followed the puts of three keys.
HeightWitness ==
    /\ Usable /\ tree.height = 1
    /\ Cardinality(everPut) >= 3
    /\ ret.op = "del" /\ ret.key \in everPut

\* C10 -- Overflow gating: is_migrated is 0 between public calls, and a put
\* or del enters none of push_to_child, split_container, try_split_node.
OverflowGating ==
    /\ tree.is_migrated = 0
    /\ ret.op \in {"put", "del"} =>
           tree.calls \cap {"push_to_child", "split_container", "try_split_node"} = {}

\* A put returned with its root container above the payload threshold.
OverflowGatingWitness ==
    /\ Usable /\ ret.op = "put" /\ RootOverfull
    /\ \E c \in Range(RootContainers) :
           ret.key \in { tree.pay[p].key.str : p \in Range(ChainOf(tree, c)) }

\* No container of the tree ever has a child: the routing interval of an
\* interior container (C6) has no instance in a reachable state.
NoInteriorContainer ==
    Usable => \A c \in TreeContainers(tree) : ~HasChild(tree, c)

\* ----------------------------------------------------------------------
\* The internal functions, called on trees built for them
\* ----------------------------------------------------------------------
\* No sequence of put and del enters push_to_child, split_container,
\* try_split_node or order_container_payload (OverflowGating), so they are
\* exercised the way a unit test does: a caller builds a tree that satisfies
\* N1, P1, P2 and T2 with payload_create, container_create, node_create and
\* insert_after_container, and calls one function on it.
MaxUnitKey == 4      \* the built trees hold keys out of 1 .. MaxUnitKey
MaxFreed == 1        \* payloads of a kind freed before the tree is built

UnitKeys == 1..MaxUnitKey

\* A tree to build is the sequence of the root's containers; a container is
\* [chain |-> its payloads as [key, type, val], child |-> the containers of
\* its child node], and a container without a child has child = << >>.
Item(k, type, v) == [key |-> k, type |-> type, val |-> v]

NoChild == << >>

\* The chain with the keys of S in increasing order; the keys in dels are
\* Del markers, the others Put payloads with the value v.
ChainOfKeys(S, dels, v) ==
    [i \in 1..Cardinality(S) |->
        LET k == Ascending(S)[i]
        IN Item(k, IF k \in dels THEN Del ELSE Put, v)]

\* The containers of a node that holds the keys of S and starts a container
\* at every key of heads (the least key of S is one of them).
Blocks(S, heads, dels, v) ==
    [i \in 1..Cardinality(heads) |->
        LET h == Ascending(heads)[i]
            upper == { g \in heads : g > h }
        IN [chain |-> ChainOfKeys({ k \in S : k >= h /\ \A g \in upper : k < g },
                                  dels, v),
            child |-> NoChild]]

RECURSIVE BuildChain(_, _, _, _)
RECURSIVE BuildContainers(_, _, _, _)
RECURSIVE BuildNode(_, _, _)

\* key = malloc(..); val = malloc(..); payload_create; link it into the
\* chain.  Nothing counts a payload up.
BuildChain(t, container, items, i) ==
    IF t.crashed \/ i > Len(items) THEN t
    ELSE LET it == items[i]
             isPut == it.type = Put
             ko == FreshObj(t.live_keys, 1)
             vo == FreshObj(t.live_vals, 1)
             t0 == [t EXCEPT !.live_keys = @ \cup {ko},
                             !.live_vals = IF isPut THEN @ \cup {vo} ELSE @]
             made == payload_create(t0, Ptr(ko, it.key),
                                    IF isPut THEN Ptr(vo, it.val) ELSE NullPtr,
                                    it.type)
             t1 == chain_insert(made.t, container, made.payload)
         IN BuildChain(t1, container, items, i + 1)

\* container_create; insert_after_container at the end of the node; the
\* chain; the child node.
BuildContainers(t, node, conts, i) ==
    IF t.crashed \/ i > Len(conts) THEN t
    ELSE LET made == container_create(t)
             c == made.container
             t1 == insert_after_container(made.t, node, c, i - 2)
             t2 == BuildChain(t1, c, conts[i].chain, 1)
             t3 == IF conts[i].child = NoChild THEN t2
                   ELSE LET b == BuildNode(t2, node, conts[i].child)
                        IN [b.t EXCEPT !.cont[c].child = b.node]
         IN BuildContainers(t3, node, conts, i + 1)

BuildNode(t, parent, conts) ==
    LET made == node_create(t, parent)
    IN [t |-> BuildContainers(made.t, made.node, conts, 1), node |-> made.node]

\* payload_create and payload_free of n payloads of a kind that hold no key
\* and no value: what earlier frees have left in the counters of the handle
\* (each free counts its kind down from 0, lines 67-70).
RECURSIVE FreedBefore(_, _, _)
FreedBefore(t, type, n) ==
    IF n = 0 THEN t
    ELSE LET made == payload_create(t, NullPtr, NullPtr, type)
         IN FreedBefore(payload_free(made.t, made.payload), type, n - 1)

\* bftree_create, the payloads freed before, then the containers of the
\* root; the height is the depth of the tree built.
BuildTree(conts, height, puts_freed, dels_freed) ==
    LET t == bftree_create([key_destructor |-> FALSE, val_destructor |-> FALSE])
        t1 == FreedBefore(FreedBefore(t, Put, puts_freed), Del, dels_freed)
    IN [BuildContainers(t1, t1.root, conts, 1) EXCEPT !.height = height]

Least(S) == CHOOSE x \in S : \A y \in S : x <= y

KeySets == (SUBSET UnitKeys) \ {{}}
HeadSets(S) == { H \in SUBSET S : Least(S) \in H }

\* A leaf root.
LeafLayouts ==
    UNION { { [family |-> "leaf", height |-> 1,
               conts |-> Blocks(S, H, {}, 1)] : H \in HeadSets(S) } : S \in KeySets }

\* A leaf under the only container of the root, whose key 0 is below
\* every key of the leaf.
UnderLayouts ==
    UNION { { [family |-> "under", height |-> 2,
               conts |-> << [chain |-> << Item(0, Put, 1) >>,
                             child |-> Blocks(S, H, {}, 1)] >>] :
              H \in HeadSets(S) } : S \in KeySets }

\* A root whose containers hold the even keys 2k and each have a child: a
\* leaf with the one key between the container's separator and the next key.
Doubled(S) == { 2 * k : k \in S }

WithChildren(conts) ==
    [i \in DOMAIN conts |->
        [conts[i] EXCEPT !.child =
            << [chain |-> << Item(conts[i].chain[1].key + 1, Put, 2) >>,
                child |-> NoChild] >>]]

InteriorLayouts ==
    UNION { { [family |-> "interior", height |-> 2,
               conts |-> WithChildren(Blocks(Doubled(S), Doubled(H), {}, 1))] :
              H \in HeadSets(S) } : S \in KeySets }

\* A node right after a container with the keys R was inserted behind the
\* container with the keys L (sep(left) < sep(right), and left may hold keys
\* that are not below sep(right)); the node is the root or hangs under it.
\* ld: the keys of left from sep(right) on are Del markers; rd: the head of
\* right is one.  Left payloads carry the value 1, right payloads 2.
OrderedPairs == { x \in KeySets \X KeySets : Least(x[1]) < Least(x[2]) }

ReflowLayouts ==
    UNION { { LET L == x[1]
                  R == x[2]
                  left == ChainOfKeys(L, IF ld THEN { k \in L : k >= Least(R) } ELSE {}, 1)
                  right == ChainOfKeys(R, IF rd THEN { Least(R) } ELSE {}, 2)
                  node == << [chain |-> left, child |-> NoChild],
                             [chain |-> right, child |-> NoChild] >>
              IN IF under
                 THEN [family |-> "reflow_under", height |-> 2,
                       conts |-> << [chain |-> << Item(0, Put, 1) >>, child |-> node] >>]
                 ELSE [family |-> "reflow", height |-> 1, conts |-> node]
              : ld \in BOOLEAN, rd \in BOOLEAN, under \in BOOLEAN }
            : x \in OrderedPairs }

\* A root container with the keys K (those of D are Del markers) over a
\* leaf child that holds keys above the container's separator.
PushLayouts ==
    UNION { { [family |-> "push", height |-> 2,
               conts |-> << [chain |-> ChainOfKeys(x[1], D, 2),
                             child |-> Blocks(x[2], H, {}, 1)] >>]
              : H \in HeadSets(x[2]), D \in SUBSET x[1] }
            : x \in OrderedPairs }

UnitLayouts ==
    LeafLayouts \cup UnderLayouts \cup InteriorLayouts \cup ReflowLayouts
    \cup PushLayouts

\* The caller builds one tree.
InitUnit ==
    /\ \E x \in UnitLayouts, puts_freed \in 0..MaxFreed, dels_freed \in 0..MaxFreed :
           /\ tree = BuildTree(x.conts, x.height, puts_freed, dels_freed)
           /\ ret = [op |-> "built", family |-> x.family]
    /\ alive = TRUE
    /\ last = [k \in Keys \cup GrowthKeys |-> 0]
    /\ everPut = {}
    /\ nput = 0
    /\ ndel = 0
    /\ input = NoInput

Built(families) == ret.op = "built" /\ ret.family \in families

\* The node the call is made on: the root, or the node under the root's
\* only container.
UnitNode ==
    IF ret.family \in {"under", "reflow_under"}
    THEN tree.cont[tree.node[tree.root].containers[1]].child
    ELSE tree.root

\* The heap as a call from container_insert's overflow branch finds it: the
\* flag, and what freed cells are.
Entered(flag, f) ==
    [tree EXCEPT !.calls = {}, !.is_migrated = flag, !.freed = f]

Called(fn, node, idx, key, val) ==
    [op |-> fn, family |-> ret.family, node |-> node, idx |-> idx, key |-> key,
     val |-> val]

\* find_container(compare, node, key, start_container)
CallFindContainer(k, s) ==
    /\ Built({"leaf"})
    /\ s < container_size(tree, tree.root)
    /\ ret' = Called("find_container", tree.root, s, k,
                     find_container(tree, tree.root, Ptr(0, k), s))
    /\ input' = tree
    /\ UNCHANGED << tree, alive, last, everPut, nput, ndel >>

\* order_container_payload(tree, node, 0, 1)
CallOrder(flag, f) ==
    /\ Built({"reflow", "reflow_under"})
    /\ tree' \in order_container_payload(Entered(flag, f), UnitNode, 0, 1)
    /\ ret' = Called("order_container_payload", UnitNode, 1, 0, flag)
    /\ input' = tree
    /\ UNCHANGED << alive, last, everPut, nput, ndel >>

\* push_to_child(tree, root, root->containers[0])
CallPush(f) ==
    /\ Built({"push"})
    /\ tree' \in push_to_child(Entered(1, f), tree.root,
                               tree.node[tree.root].containers[1])
    /\ ret' = Called("push_to_child", tree.root, 0, 0, 0)
    /\ input' = tree
    /\ UNCHANGED << alive, last, everPut, nput, ndel >>

\* split_container(tree, node, i) on a container of two payloads or more;
\* val is the heap at the call of try_split_node.
CallSplitContainer(i, f) ==
    /\ Built({"leaf", "under"})
    /\ i < container_size(tree, UnitNode)
    /\ tree.cont[tree.node[UnitNode].containers[i + 1]].payload_size >= 2
    /\ tree' \in split_container(Entered(1, f), UnitNode, i)
    /\ ret' = Called("split_container", UnitNode, i, 0,
                     split_chain(Entered(1, f), UnitNode, i))
    /\ input' = tree
    /\ UNCHANGED << alive, last, everPut, nput, ndel >>

\* try_split_node(tree, node)
CallTrySplitNode(f) ==
    /\ Built({"leaf", "under", "interior"})
    /\ tree' \in try_split_node(Entered(1, f), UnitNode)
    /\ ret' = Called("try_split_node", UnitNode, 0, 0, 0)
    /\ input' = tree
    /\ UNCHANGED << alive, last, everPut, nput, ndel >>

DoFindContainer == \E k \in 0..(MaxUnitKey + 1), s \in 0..(MaxUnitKey - 1) : CallFindContainer(k, s)
DoOrder == \E flag \in {0, 1}, f \in FreedCells : CallOrder(flag, f)
DoPush == \E f \in FreedCells : CallPush(f)
DoSplitContainer == \E i \in 0..(MaxUnitKey - 1), f \in FreedCells : CallSplitContainer(i, f)
DoTrySplitNode == \E f \in FreedCells : CallTrySplitNode(f)

NextUnit ==
    DoFindContainer \/ DoOrder \/ DoPush \/ DoSplitContainer \/ DoTrySplitNode

SpecUnit == InitUnit /\ [][NextUnit]_vars

\* ----------------------------------------------------------------------
\* Properties of the internal functions
\* ----------------------------------------------------------------------
Occurrences(seq, x) == Cardinality({ i \in DOMAIN seq : seq[i] = x })

KeyOf(t, p) == t.pay[p].key.str

\* The two containers of a reflow call, and sep(C_new) at the call.
Reflowed == ret.op = "order_container_payload"
\* left = node->containers[migrated_idx], bound once at the call
LeftAtCall == input.node[ret.node].containers[1]
RightAtCall == input.node[ret.node].containers[2]
SepAtCall == sep(input, RightAtCall).str

\* The payloads of the left chain at the call whose keys are above sep(C_new)
\* (the ones to detach), and the one whose key equals it.
Detached == { p \in Range(ChainOf(input, LeftAtCall)) : KeyOf(input, p) > SepAtCall }
Duplicate == { p \in Range(ChainOf(input, LeftAtCall)) : KeyOf(input, p) = SepAtCall }

\* The payloads linked into the tree outside the left container.
OutsideLeft == SelectSeq(Walk(tree), LAMBDA p : p \notin Range(ChainOf(tree, LeftAtCall)))

\* C11 -- Reflow restores order without losing data: after
\* order_container_payload on a left container that held keys above
\* sep(C_new) (and none equal to it: that case is C12's), every key left in
\* it is below sep(C_new); every detached payload's write is found exactly
\* once outside the left container; and every payload that was in the right
\* chain is still allocated and linked exactly once, no freed payload having
\* been read.
ReflowRestoresOrder ==
    (Reflowed /\ Detached # {} /\ Duplicate = {}) =>
        /\ ~tree.crashed /\ ~tree.use_after_free
        /\ \A p \in Range(ChainOf(tree, LeftAtCall)) : KeyOf(tree, p) < SepAtCall
        /\ \A d \in Detached :
               LET hits == { i \in DOMAIN OutsideLeft :
                                KeyOf(tree, OutsideLeft[i]) = KeyOf(input, d) }
               IN /\ Cardinality(hits) = 1
                  /\ \A i \in hits : /\ tree.pay[OutsideLeft[i]].val = input.pay[d].val
                                     /\ tree.pay[OutsideLeft[i]].type = input.pay[d].type
        /\ \A r \in Range(ChainOf(input, RightAtCall)) :
               tree.pay[r].live /\ Occurrences(Walk(tree), r) = 1

\* The payloads linked into the chains of the node of the call.
NodePayloads(t) ==
    UNION { Range(ChainOf(t, c)) : c \in Range(t.node[ret.node].containers) }

\* C12 -- Reflow with a duplicate separator: when the left chain held a
\* payload with the key sep(C_new), after the reflow one payload with that
\* key is linked in the node; it is allocated, it is the head of C_new's
\* chain, and it carries the value and the kind C_new's head had at the
\* call; the left chain no longer links the matching payload.
DuplicateSeparator ==
    (Reflowed /\ Duplicate # {}) =>
        LET head == input.cont[RightAtCall].payload_first
            same == { p \in NodePayloads(tree) : KeyOf(tree, p) = SepAtCall }
        IN /\ ~tree.crashed
           /\ same = { tree.cont[RightAtCall].payload_first }
           /\ \A p \in same : /\ tree.pay[p].live
                              /\ tree.pay[p].val = input.pay[head].val
                              /\ tree.pay[p].type = input.pay[head].type
           /\ Duplicate \cap Range(ChainOf(tree, LeftAtCall)) = {}

\* The container of a push_to_child call, its chain at the call, and the
\* floor(N/2) payloads that follow the head.
Pushed == ret.op = "push_to_child"
PushContainer == input.node[ret.node].containers[ret.idx + 1]
ChainAtCall == ChainOf(input, PushContainer)
\* push_count = container->payload_size / 2
PushCount == u32_half(input.cont[PushContainer].payload_size)
\* The payloads the pass takes: the push_count payloads after the head.
ToPush == { ChainAtCall[i] : i \in (2..(PushCount + 1)) \cap DOMAIN ChainAtCall }

\* The payloads linked under the child node of the container.
InChild ==
    LET child == tree.cont[PushContainer].child
    IN IF child = NULL THEN << >> ELSE WalkNode(tree, child, Len(tree.node))

\* The write of payload r of the call is carried by exactly one payload
\* linked in seq.
CarriedOnce(seq, r) ==
    LET hits == { i \in DOMAIN seq : KeyOf(tree, seq[i]) = KeyOf(input, r) }
    IN /\ Cardinality(hits) = 1
       /\ \A i \in hits : /\ tree.pay[seq[i]].live
                          /\ tree.pay[seq[i]].val = input.pay[r].val
                          /\ tree.pay[seq[i]].type = input.pay[r].type

\* Del counter > Put counter at the start of the pass.
DeleteHeavy == u32_gt(input.del_payload_count, input.put_payload_count)

\* In every frame of push_to_child of the call skip_delete held what the
\* counters said there: the frame assigned it (line 259), or read it
\* unassigned and found 0.
SkipDeleteAssigned == ~tree.skip_garbage

\* C13 -- push_to_child on a container of N payloads (skip_delete holding
\* what the counters say, the other case being C14's; and no insertion
\* into the child running over into split_container, whose outcome is
\* C17's and C19's): no freed payload is read or freed again; each of the
\* floor(N/2) payloads after the head has left the chain and was handled
\* once, freed as a Del or carried by one payload under the child; and the
\* chain is the head followed by the payloads that were behind the pushed
\* ones.
PushHalf ==
    (Pushed /\ SkipDeleteAssigned /\ "split_container" \notin tree.calls) =>
        /\ ~tree.crashed /\ ~tree.use_after_free
        /\ \A r \in ToPush :
               /\ r \notin Range(ChainOf(tree, PushContainer))
               /\ \/ input.pay[r].type = Del /\ ~tree.pay[r].live
                  \/ CarriedOnce(InChild, r)
        /\ ChainOf(tree, PushContainer) =
               << ChainAtCall[1] >>
               \o SubSeq(ChainAtCall, PushCount + 2, Len(ChainAtCall))

\* C14 -- Delete suppression is decided from the counters at the start of
\* the pass: when del_payload_count <= put_payload_count there, every
\* pushed Del marker is carried by a payload under the child, never dropped.
DelMarkersKept ==
    (Pushed /\ ~DeleteHeavy) =>
        \A r \in ToPush : input.pay[r].type = Del => CarriedOnce(InChild, r)

\* The separators of the containers of the node of the call, container 0
\* first.
SepsAtCall ==
    [i \in DOMAIN input.node[ret.node].containers |->
        sep(input, input.node[ret.node].containers[i]).str]

\* C15 -- find_container(node, k, s) on a node ordered by separator returns
\* the largest index i >= s with compare(sep(C_i), k) <= 0, and s when there
\* is none; the result is never below s.
FindContainerFromStart ==
    ret.op = "find_container" =>
        LET s == ret.idx
            fit == { i \in s..(Len(SepsAtCall) - 1) : SepsAtCall[i + 1] <= ret.key }
        IN /\ ret.val >= s
           /\ ret.val = IF fit = {} THEN s
                        ELSE CHOOSE i \in fit : \A j \in fit : j <= i

\* struct bftree and the heap behind it, without the record of the run.
Structure(t) ==
    [root |-> t.root, height |-> t.height, node |-> t.node, cont |-> t.cont,
     pay |-> t.pay, put_payload_count |-> t.put_payload_count,
     del_payload_count |-> t.del_payload_count]

\* try_split_node was called on the root; the root's containers at the call.
RootSplitCall == ret.op = "try_split_node" /\ ret.node = input.root
OldContainers == input.node[ret.node].containers

\* C16 -- Root split: try_split_node on a root of n >= node_container_threshold
\* containers (m = n / 2) installs a new root that holds the old root's first
\* container with child = old root, then container m with child = the new
\* sibling; the old root keeps containers 1 .. m-1, the sibling holds
\* m+1 .. n-1 in order, both have the new root as parent, and the height is
\* one more.  On a root below the threshold nothing changes.
RootSplit ==
    RootSplitCall =>
        LET n == Len(OldContainers)
            m == n \div 2
            old_root == input.root
            first == OldContainers[1]
            seam == OldContainers[m + 1]
            sibling == tree.cont[seam].child
        IN IF n < BFTREE_CONTAINER_THRESHOLD
           THEN Structure(tree) = Structure(input)
           ELSE /\ ~tree.crashed
                /\ tree.root \notin {NULL, old_root, sibling}
                /\ tree.node[tree.root].containers = << first, seam >>
                /\ tree.cont[first].child = old_root
                /\ sibling \notin {NULL, old_root}
                /\ tree.node[old_root].containers = SubSeq(OldContainers, 2, m)
                /\ tree.node[sibling].containers = SubSeq(OldContainers, m + 2, n)
                /\ tree.node[old_root].parent = tree.root
                /\ tree.node[sibling].parent = tree.root
                /\ tree.node[tree.root].parent = NULL
                /\ tree.height = input.height + 1

\* A root of four containers or more was split: the old root and the
\* sibling both keep a container.
RootSplitWitness ==
    /\ RootSplitCall
    /\ Len(OldContainers) >= 4
    /\ tree.root # input.root
    /\ tree.node[input.root].containers # << >>
    /\ \E nd \in DOMAIN tree.node :
           /\ nd \notin DOMAIN input.node
           /\ tree.node[nd].containers # << >>
           /\ tree.node[nd].parent = tree.root

\* try_split_node returned from a root below the threshold.
RootBelowThreshold ==
    RootSplitCall /\ Len(OldContainers) < BFTREE_CONTAINER_THRESHOLD

\* The container of a split_container call, its chain at the call, and the
\* heap at the call of try_split_node.
ContainerSplit == ret.op = "split_container"
SplitTarget == input.node[ret.node].containers[ret.idx + 1]
SplitChain == ChainOf(input, SplitTarget)
BeforeInspection == ret.val

\* C17 -- Container split: split_container on a childless container at
\* index i with n >= 2 payloads puts a new container at index i+1 of the
\* node; the container keeps its first floor(n/2) payloads and the new one
\* holds the other n - floor(n/2) in the same order, the two payload_size
\* fields are those counts, and the node satisfies N1 when try_split_node
\* is called.
SplitContainerHalves ==
    (ContainerSplit /\ Len(SplitChain) >= 2 /\ input.cont[SplitTarget].child = NULL) =>
        LET mid == BeforeInspection
            old == input.node[ret.node].containers
            now == mid.node[ret.node].containers
            n == Len(SplitChain)
            half == n \div 2
            new_container == now[ret.idx + 2]
        IN /\ ~mid.crashed
           /\ Len(now) = Len(old) + 1
           /\ new_container \notin DOMAIN input.cont
           /\ now = SubSeq(old, 1, ret.idx + 1) \o << new_container >>
                    \o SubSeq(old, ret.idx + 2, Len(old))
           /\ ChainOf(mid, SplitTarget) = SubSeq(SplitChain, 1, half)
           /\ ChainOf(mid, new_container) = SubSeq(SplitChain, half + 1, n)
           /\ mid.cont[SplitTarget].payload_size = half
           /\ mid.cont[new_container].payload_size = n - half
           /\ mid.cont[new_container].child = NULL
           /\ N1(mid, ret.node)

\* A container of three payloads or more was split in a node that has a
\* container behind it.
SplitContainerWitness ==
    /\ ContainerSplit
    /\ Len(SplitChain) >= 3
    /\ ret.idx + 1 < Len(input.node[ret.node].containers)
    /\ ~BeforeInspection.crashed
    /\ Len(BeforeInspection.node[ret.node].containers) >= 3

\* C18 -- Every container_insert issued by the loop of an
\* order_container_payload call runs with is_migrated = 1, also after one
\* of the insertions split a node and ran a nested reflow on the parent.
FlagDuringReflow ==
    Reflowed => ~tree.insert_unflagged

\* try_split_node was called on a node at or above the container threshold.
NodeSplit ==
    /\ ret.op = "try_split_node"
    /\ Len(input.node[ret.node].containers) >= BFTREE_CONTAINER_THRESHOLD

\* C19 -- A node split never drops data: every payload linked into the
\* tree before try_split_node split a node is linked into the tree
\* after it.
SplitKeepsPayloads ==
    NodeSplit => ~tree.crashed /\ TreePayloads(input) \subseteq TreePayloads(tree)

\* C20 -- Count consistency: in every container of the tree payload_size
\* is the number of payloads linked in its chain, after every put and del
\* and after every split_container, push_to_child and
\* order_container_payload (of the calls that read no freed payload: what
\* the fields hold after such a read is not the claim's case).
CountConsistency ==
    (~tree.crashed /\ ~tree.use_after_free) =>
        \A c \in TreeContainers(tree) :
            tree.cont[c].payload_size = Len(ChainOf(tree, c))

====
